---- MODULE Spec2Model ----
(***************************************************************************)
(* Model of the SoulCypher avatar SDK (packages/web): the session          *)
(* controller AvatarSessionManager (session.ts) and the facade             *)
(* SoulCypherSDK with its registry (sdk.ts).  The real-time transport      *)
(* (livekit-client Room) and the backend gateway are the environment.      *)
(*                                                                         *)
(* JavaScript runs one task at a time: every action below is one           *)
(* run-to-suspension segment of a method (from its call or from the        *)
(* resumption of an await up to the next await or the return).             *)
(***************************************************************************)
EXTENDS Integers, Sequences, FiniteSets, TLC

\* ------------------------------------------------------------------ bounds
MaxCtl == 2          \* controller objects the facade may construct
MaxRooms == 2        \* Room objects the controllers may construct (new Room())
MaxCalls == 1        \* facade operations in flight at once
MaxRegistered == 1   \* handlers registered on one controller at once
MaxHandlers == 2     \* the same, where the dispatcher itself is examined
MaxRacing == 2       \* facade operations in flight at once, where races are examined

Ctl == 1..MaxCtl
Rooms == 1..MaxRooms
Calls == 1..MaxRacing
SessIds == {"s1", "s2"}
Handlers == {"h1", "h2"}

\* `room: Room | null = null`
NoRoom == 0
\* no controller (a Map.get miss, an unused slot)
NoCtl == 0

\* --------------------------------------------------------- event vocabulary
SESSION_EVENTS_STARTED == "session.started"
SESSION_EVENTS_ENDED == "session.ended"
AVATAR_EVENTS_VIDEO == "avatar.video"
AVATAR_EVENTS_AUDIO == "avatar.audio"
AVATAR_EVENTS_RESPONSE == "avatar.response"
AVATAR_EVENTS_STATUS == "avatar.status"
AVATAR_EVENTS_ERROR == "avatar.error"
CONNECTION_EVENTS_QUALITY == "connection.quality"

EventTypes ==
  { SESSION_EVENTS_STARTED, SESSION_EVENTS_ENDED, AVATAR_EVENTS_VIDEO,
    AVATAR_EVENTS_AUDIO, AVATAR_EVENTS_RESPONSE, AVATAR_EVENTS_STATUS,
    AVATAR_EVENTS_ERROR, CONNECTION_EVENTS_QUALITY }

MESSAGE_TYPES_STATUS == "status"
MESSAGE_TYPES_RESPONSE == "response"
MESSAGE_TYPES_ERROR == "error"
MESSAGE_TYPES_CHAT == "chat"

\* ------------------------------------------------------------------- state
VARIABLES
  ctlSession,     \* controller -> the AvatarSession it was constructed with
  room,           \* controller -> this.room (NoRoom = null)
  eventHandlers,  \* controller -> event type -> registered handlers, in order
  roomState,      \* Room object -> its connection state ("unused": not constructed)
  roomOwner,      \* Room object -> the controller whose listeners close over it
  roomListeners,  \* Room object -> transport events with a translation listener
  connArgs,       \* Room object -> media sinks passed to the connect() that made it
  connPending,    \* Room object -> the connect() that made it awaits room.connect
  connResolved,   \* Room object -> room.connect resolved, the awaiting connect() not resumed yet
  mediaBound,     \* Room object -> sinks of the media listeners registered on it
  discNotify,     \* Room object -> a Disconnected notification is due
  tornDown,       \* Room objects handed to room.disconnect() by disconnect()
  endedFor,       \* Room object -> session.ended emissions for its teardown
  ended,          \* controllers disconnect() has run on, and connect() not since
  sessions,       \* the facade's registry: sequence of [id, ctl] in insertion order
  calls,          \* facade operations in flight
  returned,       \* the array getActiveSessions() returned last, as the caller holds it
  lastOp,         \* the segment that ran last and its outcome
  lastEmit,       \* emitEvent calls of the last segment, in order
  lastInvoked     \* handler invocations of the last segment, in order

ctlVars == <<ctlSession, room, eventHandlers>>
roomVars == <<roomState, roomOwner, roomListeners, connArgs, connPending,
              connResolved, mediaBound, discNotify>>
ghostVars == <<tornDown, endedFor, ended>>
sdkVars == <<sessions, calls, returned>>
obsVars == <<lastOp, lastEmit, lastInvoked>>
vars == <<ctlVars, roomVars, ghostVars, sdkVars, obsVars>>

NoSession == [id |-> "none", token |-> FALSE, url |-> FALSE]

\* A slot of `calls` with no operation in flight.
Idle ==
  [op |-> "idle", id |-> "none", ctl |-> NoCtl, pc |-> "none", res |-> "none",
   arg |-> "none"]

\* No array returned yet.
NoArray == [taken |-> FALSE, live |-> FALSE, elems |-> <<>>]

\* The four listeners setupRoomEventHandlers registers.
XlateListeners ==
  {"TrackSubscribed", "DataReceived", "Disconnected", "ConnectionQualityChanged"}


\* ------------------------------------------------------------ pure helpers
RECURSIVE SumOver(_, _)
SumOver(f, S) ==
  IF S = {} THEN 0
  ELSE LET x == CHOOSE y \in S : TRUE IN f[x] + SumOver(f, S \ {x})

\* Handlers registered on a controller, over all event types.
Registered(c) ==
  SumOver([t \in EventTypes |-> Len(eventHandlers[c][t])], EventTypes)

\* What the application's handlers do when called: "h1" returns, "h2" throws,
\* "h3" calls off(type, h3) on the controller, removing itself, and returns.
Throws(handler) == handler = "h2"

RemovesItself(handler) == handler = "h3"

\* What off(type, handler) leaves of the list of `type`: indexOf, then
\* splice(index, 1) when the handler is found.
OffLeaves(list, handler) ==
  IF \E i \in 1..Len(list) : list[i] = handler
  THEN LET i == CHOOSE j \in 1..Len(list) :
                  list[j] = handler /\ \A k \in 1..(j - 1) : list[k] # handler
       IN SubSeq(list, 1, i - 1) \o SubSeq(list, i + 1, Len(list))
  ELSE list

\* `try { handler(eventData) } catch (error) { console.error(..) }`: what
\* leaves the statement.
TryHandlerNoCatch(handler) == IF Throws(handler) THEN "threw" ELSE "ok"

TryHandler(handler) == "ok"

\* handlers.forEach(..) from position k on: forEach walks the positions of
\* the array itself, in order, and calls the callback on the element it finds
\* at each position that still exists; it stops at the end of the array as it
\* is by then, or at an exception that leaves the callback.  A handler that
\* calls off() splices the array being walked.
RECURSIVE ForEachFrom(_, _)
ForEachFrom(list, k) ==
  IF k > Len(list) THEN [run |-> <<>>, list |-> list]
  ELSE LET handler == list[k]
           after == IF RemovesItself(handler) THEN OffLeaves(list, handler)
                    ELSE list
       IN IF TryHandler(handler) = "threw"
          THEN [run |-> <<handler>>, list |-> after]
          ELSE LET rest == ForEachFrom(after, k + 1)
               IN [run |-> <<handler>> \o rest.run, list |-> rest.list]

\* The handlers handlers.forEach(..) calls, in call order.
ForEach(list) == ForEachFrom(list, 1).run

\* emitEvent(type, data): the handlers of `type`, each called once in list
\* order; an unknown type has no list and nothing is called.
EmitInvocations(c, type) ==
  LET run == ForEach(eventHandlers[c][type])
  IN [i \in 1..Len(run) |-> [ctl |-> c, type |-> type, handler |-> run[i]]]

\* An exception leaves emitEvent(type, data).
EmitThrows(c, type) ==
  \E i \in 1..Len(eventHandlers[c][type]) :
    TryHandler(eventHandlers[c][type][i]) = "threw"

Emitted(c, type) == [ctl |-> c, type |-> type]

\* The handler lists once the emitEvent calls of a segment have returned.
RECURSIVE AfterDispatch(_, _)
AfterDispatch(lists, emits) ==
  IF emits = <<>> THEN lists
  ELSE AfterDispatch(
         [lists EXCEPT ![Head(emits).ctl][Head(emits).type] =
                         ForEachFrom(@, 1).list],
         Tail(emits))

RECURSIVE InvokeAll(_)
InvokeAll(emits) ==
  IF emits = <<>> THEN <<>>
  ELSE EmitInvocations(Head(emits).ctl, Head(emits).type) \o InvokeAll(Tail(emits))

\* getStatus(): null room is "disconnected"; otherwise the room's state, every
\* state outside the three known ones being "error".
GetStatusTrustsRoom(c) ==
  IF room[c] = NoRoom THEN "disconnected"
  ELSE CASE roomState[room[c]] = "connecting" -> "connecting"
         [] roomState[room[c]] = "disconnected" -> "disconnected"
         [] OTHER -> "connected"

GetStatus(c) ==
  IF room[c] = NoRoom THEN "disconnected"
  ELSE CASE roomState[room[c]] = "connected" -> "connected"
         [] roomState[room[c]] = "connecting" -> "connecting"
         [] roomState[room[c]] = "disconnected" -> "disconnected"
         [] OTHER -> "error"

Constructed(c) == ctlSession[c] # NoSession

\* `!this.session.liveKitToken || !this.session.liveKitUrl`
MissingDetailsTokenOnly(c) == ~ctlSession[c].token

MissingDetails(c) == ~ctlSession[c].token \/ ~ctlSession[c].url

\* `new Room()`: the next Room object not constructed yet.
FreshRoom ==
  CHOOSE r \in Rooms :
    roomState[r] = "unused" /\ \A q \in Rooms : roomState[q] = "unused" => r <= q

\* The record of a segment: the operation, the controller and Room object it
\* ran on, its argument, its outcome and, for a transport notification,
\* getStatus() as it was before.
Op(op, c, r, arg, res) ==
  [op |-> op, ctl |-> c, room |-> r, arg |-> arg, res |-> res, pre |-> "n/a"]

Notified(op, c, r, arg, res) ==
  [op |-> op, ctl |-> c, room |-> r, arg |-> arg, res |-> res,
   pre |-> GetStatus(c)]

\* The same for an operation on a collection, with the collection as it was.
Changed(op, c, r, arg, res, before) ==
  [op |-> op, ctl |-> c, room |-> r, arg |-> arg, res |-> res, pre |-> before]

\* What a segment leaves behind: its record and its emitEvent calls, each
\* dispatched to the handlers registered when it is made; an exception that
\* left emitEvent would be the segment's outcome.
Dispatched(op, emits) ==
  /\ lastOp' =
       IF \E i \in 1..Len(emits) : EmitThrows(emits[i].ctl, emits[i].type)
       THEN [op EXCEPT !.res = "threw"] ELSE op
  /\ lastEmit' = emits
  /\ lastInvoked' = InvokeAll(emits)

\* The same, in a segment that does not itself call on() or off(): the handler
\* lists change only by what the handlers called do to them.
Observe(op, emits) ==
  /\ Dispatched(op, emits)
  /\ eventHandlers' = AfterDispatch(eventHandlers, emits)

\* ------------------------------------------------- data-channel normalizer
\* A data payload by what JSON.parse makes of its text: "invalid" (not JSON),
\* "null", a primitive, an array, or an object with its `type` member.
PayloadTypes ==
  { MESSAGE_TYPES_STATUS, MESSAGE_TYPES_RESPONSE, MESSAGE_TYPES_ERROR,
    MESSAGE_TYPES_CHAT, "bogus", "<absent>", "<number>" }

Payloads ==
  [json : {"invalid", "null", "number", "string", "boolean", "array"},
   type : {"<absent>"}]
  \cup [json : {"object"}, type : PayloadTypes]

\* JSON.parse throws a SyntaxError on text that is not JSON.
JsonParseThrows(p) == p.json = "invalid"

\* `data.type` on null throws a TypeError; on a primitive or an array it is
\* undefined; on an object it is the member (undefined when absent).
TypeAccessThrows(p) == p.json = "null"

DataType(p) == IF p.json = "object" THEN p.type ELSE "<absent>"

\* The if / else-if chain on data.type.
DispatchNothing(c, p) == <<>>

DispatchByType(c, p) ==
  CASE DataType(p) = MESSAGE_TYPES_STATUS -> <<Emitted(c, AVATAR_EVENTS_STATUS)>>
    [] DataType(p) = MESSAGE_TYPES_RESPONSE -> <<Emitted(c, AVATAR_EVENTS_RESPONSE)>>
    [] DataType(p) = MESSAGE_TYPES_ERROR -> <<Emitted(c, AVATAR_EVENTS_ERROR)>>
    [] OTHER -> <<>>

\* The DataReceived listener: parse and dispatch inside try, warn in catch.
DataReceivedListenerNoCatch(c, p) ==
  LET threw == JsonParseThrows(p) \/ TypeAccessThrows(p)
  IN [emits |-> IF threw THEN <<>> ELSE DispatchByType(c, p),
      res |-> IF threw THEN "threw" ELSE "ok"]

DataReceivedListener(c, p) ==
  LET threw == JsonParseThrows(p) \/ TypeAccessThrows(p)
  IN [emits |-> IF threw THEN <<>> ELSE DispatchByType(c, p),
      res |-> "ok"]

\* The TrackSubscribed listener of setupRoomEventHandlers.
TrackSubscribedEmitsSwapped(c, kind) ==
  CASE kind = "video" -> <<Emitted(c, AVATAR_EVENTS_AUDIO)>>
    [] kind = "audio" -> <<Emitted(c, AVATAR_EVENTS_VIDEO)>>
    [] OTHER -> <<>>

TrackSubscribedEmits(c, kind) ==
  CASE kind = "video" -> <<Emitted(c, AVATAR_EVENTS_VIDEO)>>
    [] kind = "audio" -> <<Emitted(c, AVATAR_EVENTS_AUDIO)>>
    [] OTHER -> <<>>

\* ------------------------------------------------------ transport (Room)
\* room.disconnect(): a Room that is connecting, connected or reconnecting
\* becomes disconnected; one that was connected (or reconnecting) announces it
\* with a Disconnected notification, delivered from a later task; a pending
\* room.connect() is aborted and will reject.  T is the set of Rooms called.
TransportDisconnect(T) ==
  /\ roomState' = [r \in Rooms |-> IF r \in T THEN "disconnected" ELSE roomState[r]]
  /\ discNotify' =
       [r \in Rooms |->
          IF r \in T /\ roomState[r] \in {"connected", "reconnecting"}
          THEN TRUE ELSE discNotify[r]]

\* ------------------------------------------------- AvatarSessionManager
\* The promise disconnect() returns: room.disconnect() is called and its
\* promise dropped (not awaited), so its outcome never reaches the caller.
DisconnectResultAwaited(outcome) ==
  IF outcome = "rejects" THEN "rejected" ELSE "resolved"

DisconnectResult(outcome) == "resolved"

\* The last statement of disconnect(): session.ended is emitted whether or
\* not there was a room.
DisconnectEmitsIfConnected(c) ==
  IF room[c] # NoRoom THEN <<Emitted(c, SESSION_EVENTS_ENDED)>> ELSE <<>>

DisconnectEmits(c) == <<Emitted(c, SESSION_EVENTS_ENDED)>>

\* disconnect() on every controller of D in one segment (D is a single
\* controller except in cleanup()): on a controller with a room, call
\* room.disconnect() and null the field.
DisconnectRooms(D) ==
  LET T == {room[c] : c \in D} \ {NoRoom}
  IN /\ TransportDisconnect(T)
     /\ room' = [c \in Ctl |-> IF c \in D THEN NoRoom ELSE room[c]]
     /\ tornDown' = tornDown \cup T
     /\ endedFor' = [r \in Rooms |-> IF r \in T THEN 1 ELSE endedFor[r]]
     /\ ended' = ended \cup D
     /\ UNCHANGED <<ctlSession, roomOwner, roomListeners,
                    connArgs, connPending, connResolved, mediaBound>>

\* connect(videoElement?, audioElement?), up to `await this.room.connect(..)`.
Connect(c, sinks) ==
  /\ Constructed(c)
  /\ IF MissingDetails(c)
     THEN /\ Observe(Op("connect", c, NoRoom, "none", "ConnectionError"), <<>>)
          /\ UNCHANGED <<ctlSession, room, roomVars, ghostVars, sdkVars>>
     ELSE /\ \E q \in Rooms : roomState[q] = "unused"
          /\ LET r == FreshRoom
             IN /\ room' = [room EXCEPT ![c] = r]
                /\ roomState' = [roomState EXCEPT ![r] = "connecting"]
                /\ roomOwner' = [roomOwner EXCEPT ![r] = c]
                /\ roomListeners' = [roomListeners EXCEPT ![r] = XlateListeners]
                /\ connArgs' = [connArgs EXCEPT ![r] = sinks]
                /\ connPending' = [connPending EXCEPT ![r] = TRUE]
                /\ Observe(Op("connect", c, r, "none", "awaiting"), <<>>)
          /\ ended' = ended \ {c}
          /\ UNCHANGED <<ctlSession, connResolved, mediaBound,
                         discNotify, tornDown, endedFor, sdkVars>>

\* The transport established the connection of Room r: room.connect()
\* resolves, and the connect() that awaits it is resumed from a later microtask.
TransportConnected(r) ==
  /\ connPending[r]
  /\ ~connResolved[r]
  /\ roomState[r] = "connecting"
  /\ roomState' = [roomState EXCEPT ![r] = "connected"]
  /\ connResolved' = [connResolved EXCEPT ![r] = TRUE]
  /\ Observe(Op("transportConnected", roomOwner[r], r, "none", "ok"), <<>>)
  /\ UNCHANGED <<ctlSession, room, roomOwner, roomListeners, connArgs, connPending,
                 mediaBound, discNotify, ghostVars, sdkVars>>

\* room.connect() of Room r resolved: the rest of the connect() that awaits it
\* (at once when nothing ran since the transport connected, or after what
\* ran in between).  setupMediaElements registers on this.room as it is now
\* (nothing when null).
ConnectResolve(r) ==
  /\ connPending[r]
  /\ roomState[r] = "connecting" \/ connResolved[r]
  /\ LET c == roomOwner[r]
         cur == room[c]
     IN /\ roomState' =
             IF connResolved[r] THEN roomState
             ELSE [roomState EXCEPT ![r] = "connected"]
        /\ connPending' = [connPending EXCEPT ![r] = FALSE]
        /\ connResolved' = [connResolved EXCEPT ![r] = FALSE]
        /\ mediaBound' =
             IF connArgs[r] # {} /\ cur # NoRoom
             THEN [mediaBound EXCEPT ![cur] = Append(@, connArgs[r])]
             ELSE mediaBound
        /\ Observe(Op("connectResolved", c, r, "none", "resolved"),
                   <<Emitted(c, SESSION_EVENTS_STARTED)>>)
  /\ UNCHANGED <<ctlSession, room, roomOwner, roomListeners, connArgs, discNotify,
                 ghostVars, sdkVars>>

\* room.connect() of Room r rejected: connect() throws a ConnectionError from
\* its catch block; this.room keeps the Room object.
ConnectReject(r) ==
  /\ connPending[r]
  /\ ~connResolved[r]
  /\ roomState[r] \in {"connecting", "disconnected"}
  /\ roomState' = [roomState EXCEPT ![r] = "disconnected"]
  /\ connPending' = [connPending EXCEPT ![r] = FALSE]
  /\ Observe(Op("connectRejected", roomOwner[r], r, "none", "ConnectionError"),
             <<>>)
  /\ UNCHANGED <<ctlSession, room, roomOwner, roomListeners, connArgs, connResolved,
                 mediaBound, discNotify, ghostVars, sdkVars>>

\* disconnect(); `outcome` is what the transport will make of the promise of
\* room.disconnect().
Disconnect(c, outcome) ==
  /\ Constructed(c)
  /\ DisconnectRooms({c})
  /\ Observe(Op("disconnect", c, room[c], outcome, DisconnectResult(outcome)),
             DisconnectEmits(c))
  /\ UNCHANGED sdkVars

\* `if (!this.room)` of sendMessage
NotConnectedNever(c) == FALSE

NotConnected(c) == room[c] = NoRoom

\* sendMessage(message): without a room it throws the "Not connected"
\* SessionError; with one it calls publishData on it, whatever the Room's
\* state, and a rejection comes back as the "Failed to send" SessionError.
\* The code after the await reads and writes no state, so the call and its
\* completion are one step; `outcome` is what the transport makes of the
\* publication.
SendMessage(c, outcome) ==
  /\ Constructed(c)
  /\ Observe(Op("sendMessage", c, room[c], [published |-> ~NotConnected(c)],
                IF NotConnected(c) THEN "NotConnected"
                ELSE IF outcome = "rejects" THEN "SendFailed" ELSE "resolved"),
             <<>>)
  /\ UNCHANGED <<ctlSession, room, roomVars, ghostVars, sdkVars>>

\* on(event, handler)
On(c, event, handler) ==
  /\ Constructed(c)
  /\ eventHandlers' =
       [eventHandlers EXCEPT ![c][event] = Append(@, handler)]
  /\ Dispatched(Changed("on", c, room[c], <<event, handler>>, "ok",
                        eventHandlers[c][event]), <<>>)
  /\ UNCHANGED <<ctlSession, room, roomVars, ghostVars, sdkVars>>

\* indexOf: the first position of the handler in the list, 0 when absent.
IndexOf(list, handler) ==
  IF \E i \in 1..Len(list) : list[i] = handler
  THEN CHOOSE i \in 1..Len(list) :
         list[i] = handler /\ \A j \in 1..(i - 1) : list[j] # handler
  ELSE 0

\* splice(index, 1)
SpliceToEnd(list, i) == SubSeq(list, 1, i - 1)

Splice(list, i) == SubSeq(list, 1, i - 1) \o SubSeq(list, i + 1, Len(list))

\* off(event, handler)
Off(c, event, handler) ==
  /\ Constructed(c)
  /\ LET list == eventHandlers[c][event]
         i == IndexOf(list, handler)
     IN eventHandlers' =
          IF i > 0 THEN [eventHandlers EXCEPT ![c][event] = Splice(list, i)]
          ELSE eventHandlers
  /\ Dispatched(Changed("off", c, room[c], <<event, handler>>, "ok",
                        eventHandlers[c][event]), <<>>)
  /\ UNCHANGED <<ctlSession, room, roomVars, ghostVars, sdkVars>>

\* ------------------------------------------- transport notifications
\* The transport delivers track, data and quality notifications of a Room
\* from the start of connection establishment until the Room is disconnected.
Delivering(r) == roomState[r] \in {"connecting", "connected"}

\* The media listeners of Room r, registered by setupMediaElements: how many
\* times a subscribed track of the given kind is attached to a sink.
TrackAttachments(r, kind) ==
  Cardinality({i \in DOMAIN mediaBound[r] : kind \in mediaBound[r][i]})

NotifyTrackSubscribed(r, kind) ==
  /\ Delivering(r)
  /\ LET c == roomOwner[r]
     IN Observe(Op("TrackSubscribed", c, r, kind, "ok"),
                IF "TrackSubscribed" \in roomListeners[r]
                THEN TrackSubscribedEmits(c, kind) ELSE <<>>)
  /\ UNCHANGED <<ctlSession, room, roomVars, ghostVars, sdkVars>>

NotifyDataReceived(r, p) ==
  /\ Delivering(r)
  /\ LET c == roomOwner[r]
         out == DataReceivedListener(c, p)
     IN IF "DataReceived" \in roomListeners[r]
        THEN Observe(Notified("DataReceived", c, r, p, out.res), out.emits)
        ELSE Observe(Notified("DataReceived", c, r, p, "ok"), <<>>)
  /\ UNCHANGED <<ctlSession, room, roomVars, ghostVars, sdkVars>>

NotifyConnectionQualityChanged(r) ==
  /\ Delivering(r)
  /\ LET c == roomOwner[r]
     IN Observe(Op("ConnectionQualityChanged", c, r, "quality", "ok"),
                IF "ConnectionQualityChanged" \in roomListeners[r]
                THEN <<Emitted(c, CONNECTION_EVENTS_QUALITY)>> ELSE <<>>)
  /\ UNCHANGED <<ctlSession, room, roomVars, ghostVars, sdkVars>>

\* The Disconnected notification of Room r reaches the listener registered by
\* setupRoomEventHandlers, whose closure emits on the controller that made r.
NotifyDisconnected(r) ==
  /\ discNotify[r]
  /\ discNotify' = [discNotify EXCEPT ![r] = FALSE]
  /\ LET c == roomOwner[r]
         heard == "Disconnected" \in roomListeners[r]
     IN /\ Observe(Op("Disconnected", c, r, "reason", "ok"),
                   IF heard THEN <<Emitted(c, SESSION_EVENTS_ENDED)>> ELSE <<>>)
        /\ endedFor' =
             IF heard /\ r \in tornDown
             THEN [endedFor EXCEPT ![r] = @ + 1] ELSE endedFor
  /\ UNCHANGED <<ctlSession, room, roomState, roomOwner, roomListeners, connArgs,
                 connPending, connResolved, mediaBound, tornDown, ended, sdkVars>>

\* The connection is lost or closed by the server.
TransportDrop(r) ==
  /\ roomState[r] \in {"connected", "reconnecting"}
  /\ roomState' = [roomState EXCEPT ![r] = "disconnected"]
  /\ discNotify' = [discNotify EXCEPT ![r] = TRUE]
  /\ Observe(Op("transportDrop", roomOwner[r], r, "none", "ok"), <<>>)
  /\ UNCHANGED <<ctlSession, room, roomOwner, roomListeners, connArgs, connPending,
                 connResolved, mediaBound, ghostVars, sdkVars>>

\* The transport loses the connection and tries to resume it.
TransportReconnecting(r) ==
  /\ roomState[r] = "connected"
  /\ roomState' = [roomState EXCEPT ![r] = "reconnecting"]
  /\ Observe(Op("transportReconnecting", roomOwner[r], r, "none", "ok"), <<>>)
  /\ UNCHANGED <<ctlSession, room, roomOwner, roomListeners, connArgs, connPending,
                 connResolved, mediaBound, discNotify, ghostVars, sdkVars>>

TransportReconnected(r) ==
  /\ roomState[r] = "reconnecting"
  /\ roomState' = [roomState EXCEPT ![r] = "connected"]
  /\ Observe(Op("transportReconnected", roomOwner[r], r, "none", "ok"), <<>>)
  /\ UNCHANGED <<ctlSession, room, roomOwner, roomListeners, connArgs, connPending,
                 connResolved, mediaBound, discNotify, ghostVars, sdkVars>>

\* ------------------------------------------------------- the controller alone
\* One AvatarSessionManager constructed directly on a session object.
SessionInputs == [id : {"s1"}, token : BOOLEAN, url : BOOLEAN]

InitRooms ==
  /\ roomState = [r \in Rooms |-> "unused"]
  /\ roomOwner = [r \in Rooms |-> NoCtl]
  /\ roomListeners = [r \in Rooms |-> {}]
  /\ connArgs = [r \in Rooms |-> {}]
  /\ connPending = [r \in Rooms |-> FALSE]
  /\ connResolved = [r \in Rooms |-> FALSE]
  /\ mediaBound = [r \in Rooms |-> <<>>]
  /\ discNotify = [r \in Rooms |-> FALSE]
  /\ tornDown = {}
  /\ ended = {}
  /\ endedFor = [r \in Rooms |-> 0]

Init ==
  /\ \E s \in SessionInputs :
       ctlSession = [c \in Ctl |-> IF c = 1 THEN s ELSE NoSession]
  /\ room = [c \in Ctl |-> NoRoom]
  /\ eventHandlers = [c \in Ctl |-> [t \in EventTypes |-> <<>>]]
  /\ InitRooms
  /\ sessions = <<>>
  /\ calls = [k \in Calls |-> Idle]
  /\ returned = NoArray
  /\ lastOp = Op("init", NoCtl, NoRoom, "none", "ok")
  /\ lastEmit = <<>>
  /\ lastInvoked = <<>>

\* What the application does with a controller in this specification: it
\* connects (with or without a video sink), disconnects and listens to the
\* lifecycle events.
LifecycleSinks == { {}, {"video"} }
LifecycleEvents == {SESSION_EVENTS_STARTED, SESSION_EVENTS_ENDED}
LifecycleHandlers == {"h1"}
LifecyclePayloads ==
  { [json |-> "object", type |-> MESSAGE_TYPES_RESPONSE],
    [json |-> "invalid", type |-> "<absent>"] }

ControllerNext(c) ==
  \/ \E sinks \in LifecycleSinks : Connect(c, sinks)
  \/ \E outcome \in {"resolves", "rejects"} : Disconnect(c, outcome)
  \/ \E t \in LifecycleEvents, h \in LifecycleHandlers :
       Registered(c) < MaxRegistered /\ On(c, t, h)

TransportNext(payloads) ==
  \E r \in Rooms :
    \/ ConnectResolve(r)
    \/ ConnectReject(r)
    \/ \E kind \in {"video", "audio", "unknown"} : NotifyTrackSubscribed(r, kind)
    \/ \E p \in payloads : NotifyDataReceived(r, p)
    \/ NotifyConnectionQualityChanged(r)
    \/ NotifyDisconnected(r)
    \/ TransportDrop(r)
    \/ TransportReconnecting(r)
    \/ TransportReconnected(r)

Next ==
  \/ \E c \in Ctl : ControllerNext(c)
  \/ TransportNext(LifecyclePayloads)

Spec == Init /\ [][Next]_vars

\* --------------------------------------------------- the normalizer alone
\* One controller whose application listens to the avatar events while the
\* transport delivers every kind of data payload.
DataEvents == {AVATAR_EVENTS_STATUS, AVATAR_EVENTS_RESPONSE, AVATAR_EVENTS_ERROR}

NextData ==
  \/ \E c \in Ctl :
       \/ Connect(c, {})
       \/ Disconnect(c, "resolves")
       \/ \E t \in DataEvents, h \in LifecycleHandlers :
            Registered(c) < MaxRegistered /\ On(c, t, h)
  \/ \E r \in Rooms :
       \/ ConnectResolve(r)
       \/ \E p \in Payloads : NotifyDataReceived(r, p)

SpecData == Init /\ [][NextData]_vars

\* --------------------------------------------------- the translation alone
\* Every notification the four translating listeners hear, with every kind of
\* track and every payload, on controllers with at most one handler.
TranslatedEvents ==
  {AVATAR_EVENTS_VIDEO, AVATAR_EVENTS_AUDIO, AVATAR_EVENTS_STATUS,
   AVATAR_EVENTS_RESPONSE, AVATAR_EVENTS_ERROR, CONNECTION_EVENTS_QUALITY,
   SESSION_EVENTS_ENDED}

NextTranslate ==
  \/ \E c \in Ctl :
       \/ Connect(c, {})
       \/ Disconnect(c, "resolves")
       \/ \E t \in TranslatedEvents, h \in LifecycleHandlers :
            Registered(c) < MaxRegistered /\ On(c, t, h)
  \/ \E r \in Rooms :
       \/ ConnectResolve(r)
       \/ \E kind \in {"video", "audio", "unknown"} : NotifyTrackSubscribed(r, kind)
       \/ \E p \in Payloads : NotifyDataReceived(r, p)
       \/ NotifyConnectionQualityChanged(r)
       \/ NotifyDisconnected(r)

SpecTranslate == Init /\ [][NextTranslate]_vars

\* ------------------------------------------- the dispatcher, re-entered
\* Handlers that return and handlers that remove themselves when called, on
\* controllers the application disconnects (each disconnect() emits
\* session.ended).
ReentrantHandlers == {"h1", "h3"}

NextReentrant ==
  \E c \in Ctl :
    \/ \E h \in ReentrantHandlers :
         Registered(c) < MaxHandlers /\ On(c, SESSION_EVENTS_ENDED, h)
    \/ \E h \in ReentrantHandlers : Off(c, SESSION_EVENTS_ENDED, h)
    \/ Disconnect(c, "resolves")

SpecReentrant == Init /\ [][NextReentrant]_vars

\* ------------------------------------------------------- the start alone
\* One controller whose application connects only when the controller holds
\* no Room, and disconnects at any moment, also between the moment the
\* transport connected and the moment connect() goes on.
NextStart ==
  \/ \E c \in Ctl :
       \/ room[c] = NoRoom /\ Connect(c, {})
       \/ Disconnect(c, "resolves")
       \/ \E h \in LifecycleHandlers :
            Registered(c) < MaxRegistered /\ On(c, SESSION_EVENTS_STARTED, h)
  \/ \E r \in Rooms :
       \/ TransportConnected(r)
       \/ ConnectResolve(r)
       \/ ConnectReject(r)
       \/ NotifyDisconnected(r)

SpecStart == Init /\ [][NextStart]_vars

\* ------------------------------------------------------ the status alone
\* The application calls getStatus(): the call returns and assigns nothing.
GetStatusCall(c) ==
  /\ Constructed(c)
  /\ Observe(Changed("getStatus", c, room[c], "none", GetStatus(c),
                     <<ctlVars, roomVars>>), <<>>)
  /\ UNCHANGED <<ctlSession, room, roomVars, ghostVars, sdkVars>>

\* One controller whose application asks for the status at any moment of the
\* connection's life, reconnections of the transport included.
NextStatus ==
  \/ \E c \in Ctl :
       \/ Connect(c, {})
       \/ Disconnect(c, "resolves")
       \/ GetStatusCall(c)
  \/ \E r \in Rooms :
       \/ ConnectResolve(r)
       \/ ConnectReject(r)
       \/ TransportDrop(r)
       \/ TransportReconnecting(r)
       \/ TransportReconnected(r)
       \/ NotifyDisconnected(r)

SpecStatus == Init /\ [][NextStatus]_vars

\* ------------------------------------------------------ the sender alone
\* One controller whose application sends messages at any moment of the
\* connection's life.
NextSend ==
  \/ \E c \in Ctl :
       \/ Connect(c, {})
       \/ Disconnect(c, "resolves")
       \/ \E outcome \in {"resolves", "rejects"} : SendMessage(c, outcome)
  \/ \E r \in Rooms :
       \/ ConnectResolve(r)
       \/ ConnectReject(r)
       \/ TransportDrop(r)
       \/ NotifyDisconnected(r)

SpecSend == Init /\ [][NextSend]_vars

\* --------------------------------------------------- the dispatcher alone
\* One controller whose application registers and removes handlers, one that
\* returns and one that throws, while the session starts, receives avatar
\* responses and ends.
DispatchEvents ==
  {SESSION_EVENTS_STARTED, SESSION_EVENTS_ENDED, AVATAR_EVENTS_RESPONSE}

DispatchPayloads == { [json |-> "object", type |-> MESSAGE_TYPES_RESPONSE] }

NextEvents ==
  \/ \E c \in Ctl :
       \/ Connect(c, {})
       \/ Disconnect(c, "resolves")
       \/ \E t \in DispatchEvents, h \in Handlers :
            Registered(c) < MaxHandlers /\ On(c, t, h)
       \/ \E t \in DispatchEvents, h \in Handlers : Off(c, t, h)
  \/ \E r \in Rooms :
       \/ ConnectResolve(r)
       \/ \E p \in DispatchPayloads : NotifyDataReceived(r, p)
       \/ NotifyDisconnected(r)

SpecEvents == Init /\ [][NextEvents]_vars

\* ------------------------------------------------------------ SoulCypherSDK
\* `sessions: Map<string, AvatarSessionManager>`, in insertion order.
MapGetMiss(id) == NoCtl

MapGet(id) ==
  IF \E i \in 1..Len(sessions) : sessions[i].id = id
  THEN sessions[CHOOSE i \in 1..Len(sessions) : sessions[i].id = id].ctl
  ELSE NoCtl

\* Map.set: a present key keeps its place and takes the new value.
MapSetNowhere(id, c) == sessions

MapSet(id, c) ==
  IF MapGet(id) # NoCtl
  THEN [i \in 1..Len(sessions) |->
          IF sessions[i].id = id THEN [id |-> id, ctl |-> c] ELSE sessions[i]]
  ELSE Append(sessions, [id |-> id, ctl |-> c])

\* Map.delete
MapDeleteSkipped(id) == sessions

MapDelete(id) == SelectSeq(sessions, LAMBDA e : e.id # id)

\* Array.from(this.sessions.values())
Values == [i \in 1..Len(sessions) |-> sessions[i].ctl]

ValueSet == {sessions[i].ctl : i \in 1..Len(sessions)}

\* `new AvatarSessionManager(session)`: the next controller not constructed.
CanConstruct == \E c \in Ctl : ~Constructed(c)

FreshCtl ==
  CHOOSE c \in Ctl : ~Constructed(c) /\ \A d \in Ctl : ~Constructed(d) => c <= d

\* The slot a new facade operation suspends in.
CanCall == \E k \in Calls : calls[k].op = "idle"

FreeCall ==
  CHOOSE k \in Calls :
    calls[k].op = "idle" /\ \A j \in Calls : calls[j].op = "idle" => k <= j

Suspend(rec) == calls' = [calls EXCEPT ![FreeCall] = rec]

Finish(k) == calls' = [calls EXCEPT ![k] = Idle]

\* The sessions the gateway hands out carry both connection details.
GatewaySession(id) == [id |-> id, token |-> TRUE, url |-> TRUE]

\* The session ids that exist at the gateway as far as this client has seen:
\* those of the sessions it was handed.
Issued == {ctlSession[c].id : c \in {d \in Ctl : Constructed(d)}}

\* The id the gateway gives the next session it creates.
FreshId == CHOOSE id \in SessIds \ Issued : TRUE

\* createSession(request), up to `await this.apiClient.createSession(request)`.
CreateSessionCall ==
  /\ CanCall
  /\ Suspend([op |-> "createSession", id |-> "none", ctl |-> NoCtl,
              pc |-> "gateway", res |-> "none", arg |-> "none"])
  /\ Observe(Op("createSessionCall", NoCtl, NoRoom, "none", "awaiting"), <<>>)
  /\ UNCHANGED <<ctlSession, room, roomVars, ghostVars, sessions, returned>>

\* The gateway created the session `id`: wrap it and register the controller.
CreateSessionReturn(k) ==
  /\ calls[k].op = "createSession"
  /\ SessIds \ Issued # {}
  /\ CanConstruct
  /\ LET c == FreshCtl
         id == FreshId
     IN /\ ctlSession' = [ctlSession EXCEPT ![c] = GatewaySession(id)]
        /\ sessions' = MapSet(id, c)
        /\ Observe(Changed("createSession", c, NoRoom, id, "resolved", sessions),
                   <<>>)
  /\ Finish(k)
  /\ UNCHANGED <<room, roomVars, ghostVars, returned>>

\* The gateway call failed: createSession rejects with the gateway's error.
CreateSessionFail(k) ==
  /\ calls[k].op = "createSession"
  /\ Finish(k)
  /\ Observe(Changed("createSession", NoCtl, NoRoom, "none", "rejected", sessions),
             <<>>)
  /\ UNCHANGED <<ctlSession, room, roomVars, ghostVars, sessions, returned>>

\* getSession(sessionId): a hit returns the registered controller; a miss goes
\* to `await this.apiClient.getSession(sessionId)`.
GetSessionCall(id) ==
  /\ IF MapGet(id) # NoCtl
     THEN /\ Observe(Changed("getSession", MapGet(id), NoRoom, id, "hit",
                             [sessions |-> sessions, calls |-> calls]), <<>>)
          /\ UNCHANGED calls
     ELSE /\ CanCall
          /\ Suspend([op |-> "getSession", id |-> id, ctl |-> NoCtl,
                      pc |-> "gateway", res |-> "none", arg |-> "none"])
          /\ Observe(Changed("getSessionCall", NoCtl, NoRoom, id, "awaiting",
                             [sessions |-> sessions, calls |-> calls]), <<>>)
  /\ UNCHANGED <<ctlSession, room, roomVars, ghostVars, sessions, returned>>

\* The gateway returned the session: wrap it and register the controller.
GetSessionReturn(k) ==
  /\ calls[k].op = "getSession"
  /\ CanConstruct
  /\ LET c == FreshCtl
         id == calls[k].id
     IN /\ ctlSession' = [ctlSession EXCEPT ![c] = GatewaySession(id)]
        /\ sessions' = MapSet(id, c)
        /\ Observe(Changed("getSession", c, NoRoom, id, "fetched",
                           [sessions |-> sessions, calls |-> calls]), <<>>)
  /\ Finish(k)
  /\ UNCHANGED <<room, roomVars, ghostVars, returned>>

\* The errors a gateway call fails with (APIClient.request): a status mapped
\* by handleErrorResponse, or no response at all.
FetchErrors == {"NOT_FOUND", "AuthenticationError", "NETWORK_ERROR"}

\* `catch (error) { return null; }`: what getSession makes of the error.
GetSessionCaughtNotFound(kind) == IF kind = "NOT_FOUND" THEN "null" ELSE "rejected"

GetSessionCaught(kind) == "null"

\* The fetch failed: the catch block returns null.
GetSessionFail(k, kind) ==
  /\ calls[k].op = "getSession"
  /\ Finish(k)
  /\ Observe(Changed("getSessionFailed", NoCtl, NoRoom, <<calls[k].id, kind>>,
                     GetSessionCaught(kind),
                     [sessions |-> sessions, calls |-> calls]), <<>>)
  /\ UNCHANGED <<ctlSession, room, roomVars, ghostVars, sessions, returned>>

\* endSession(sessionId), first segment: a registered controller is
\* disconnected and the call suspends at `await sessionManager.disconnect()`;
\* without one the gateway call is issued at once.
EndSessionCall(id, outcome) ==
  /\ CanCall
  /\ LET m == MapGet(id)
     IN IF m # NoCtl
        THEN /\ DisconnectRooms({m})
             /\ Suspend([op |-> "endSession", id |-> id, ctl |-> m,
                         pc |-> "disconnect", res |-> DisconnectResult(outcome),
                         arg |-> "none"])
             /\ Observe(Op("endSession", m, room[m], id, "awaiting"),
                        DisconnectEmits(m))
        ELSE /\ Suspend([op |-> "endSession", id |-> id, ctl |-> NoCtl,
                         pc |-> "gateway", res |-> "none", arg |-> "none"])
             /\ Observe(Op("endSessionIssued", NoCtl, NoRoom, id, "awaiting"), <<>>)
             /\ UNCHANGED <<ctlSession, room, roomVars, ghostVars>>
  /\ UNCHANGED <<sessions, returned>>

\* endSession after the await of disconnect(): the entry is deleted and the
\* gateway call issued; a rejected disconnect() would leave through the throw.
EndSessionResume(k) ==
  /\ calls[k].op = "endSession" /\ calls[k].pc = "disconnect"
  /\ IF calls[k].res = "rejected"
     THEN /\ Finish(k)
          /\ UNCHANGED sessions
          /\ Observe(Op("endSession", calls[k].ctl, NoRoom, calls[k].id, "rejected"),
                     <<>>)
     ELSE /\ sessions' = MapDelete(calls[k].id)
          /\ calls' = [calls EXCEPT ![k].pc = "gateway"]
          /\ Observe(Op("endSessionIssued", calls[k].ctl, NoRoom, calls[k].id,
                        "awaiting"), <<>>)
  /\ UNCHANGED <<ctlSession, room, roomVars, ghostVars, returned>>

\* The gateway ended the session: endSession resolves.
EndSessionReturn(k) ==
  /\ calls[k].op = "endSession" /\ calls[k].pc = "gateway"
  /\ Finish(k)
  /\ Observe(Op("endSessionDone", calls[k].ctl, NoRoom, calls[k].id, "resolved"),
             <<>>)
  /\ UNCHANGED <<ctlSession, room, roomVars, ghostVars, sessions, returned>>

\* The gateway call failed: endSession rejects; nothing is put back.
EndSessionFail(k) ==
  /\ calls[k].op = "endSession" /\ calls[k].pc = "gateway"
  /\ Finish(k)
  /\ Observe(Op("endSessionDone", calls[k].ctl, NoRoom, calls[k].id, "rejected"),
             <<>>)
  /\ UNCHANGED <<ctlSession, room, roomVars, ghostVars, sessions, returned>>

\* Promise.all over the promises of disconnect(): rejected if one is.
PromiseAll(results) ==
  IF "rejected" \in results THEN "rejected" ELSE "resolved"

\* The emitEvent calls of the disconnect() of every registered controller.
RECURSIVE EmitsOfAll(_)
EmitsOfAll(ctls) ==
  IF ctls = <<>> THEN <<>>
  ELSE DisconnectEmits(Head(ctls)) \o EmitsOfAll(Tail(ctls))

CleanupEmits == EmitsOfAll(Values)

\* cleanup(), first segment: disconnect() runs on every registered controller,
\* in registry order, and the call suspends at `await Promise.all(..)`.  R is
\* the set of controllers whose room.disconnect() the transport will reject.
CleanupCall(R) ==
  /\ CanCall
  /\ R \subseteq {c \in ValueSet : room[c] # NoRoom}
  /\ DisconnectRooms(ValueSet)
  /\ Suspend([op |-> "cleanup", id |-> "none", ctl |-> NoCtl, pc |-> "all",
              res |-> PromiseAll({DisconnectResult(IF c \in R THEN "rejects"
                                                   ELSE "resolves") : c \in ValueSet}),
              arg |-> [rejects |-> R, n |-> Len(sessions)]])
  /\ Observe(Op("cleanup", NoCtl, NoRoom, "none", "awaiting"), CleanupEmits)
  /\ UNCHANGED <<sessions, returned>>

\* cleanup() after the await: the registry is cleared, unless Promise.all
\* rejected and the clear is skipped.
CleanupResume(k) ==
  /\ calls[k].op = "cleanup"
  /\ sessions' = IF calls[k].res = "rejected" THEN sessions ELSE <<>>
  /\ Finish(k)
  /\ Observe(Op("cleanupDone", NoCtl, NoRoom, calls[k].arg, calls[k].res), <<>>)
  /\ UNCHANGED <<ctlSession, room, roomVars, ghostVars, returned>>

\* Array.from(..): a new array with the elements of the iterable.
LiveView(elems) == [taken |-> TRUE, live |-> TRUE, elems |-> elems]

ArrayFrom(elems) == [taken |-> TRUE, live |-> FALSE, elems |-> elems]

\* getActiveSessions()
GetActiveSessions ==
  /\ returned' = ArrayFrom(Values)
  /\ Observe(Op("getActiveSessions", NoCtl, NoRoom, "none", "ok"), <<>>)
  /\ UNCHANGED <<ctlSession, room, roomVars, ghostVars, sessions, calls>>

\* What the caller reads in the array it holds: its own elements, or the
\* registry's if the array were the registry's storage.
Snapshot == IF returned.live THEN Values ELSE returned.elems

\* The caller removes the last element of the array it holds (pop); the
\* registry would lose it too if the array were the registry's storage.
MutateSnapshot ==
  /\ returned.taken
  /\ returned.elems # <<>>
  /\ returned' =
       [returned EXCEPT !.elems = SubSeq(@, 1, Len(@) - 1)]
  /\ sessions' =
       IF returned.live /\ sessions # <<>>
       THEN SubSeq(sessions, 1, Len(sessions) - 1) ELSE sessions
  /\ Observe(Changed("mutateSnapshot", NoCtl, NoRoom, "pop", "ok", sessions), <<>>)
  /\ UNCHANGED <<ctlSession, room, roomVars, ghostVars, calls>>

InitSdk ==
  /\ ctlSession = [c \in Ctl |-> NoSession]
  /\ room = [c \in Ctl |-> NoRoom]
  /\ eventHandlers = [c \in Ctl |-> [t \in EventTypes |-> <<>>]]
  /\ InitRooms
  /\ sessions = <<>>
  /\ calls = [k \in Calls |-> Idle]
  /\ returned = NoArray
  /\ lastOp = Op("init", NoCtl, NoRoom, "none", "ok")
  /\ lastEmit = <<>>
  /\ lastInvoked = <<>>

\* The facade operations suspended at an await.
InFlight == Cardinality({k \in Calls : calls[k].op # "idle"})

\* The application starts a facade operation that awaits only while fewer
\* than MaxCalls are in flight.
FacadeNext ==
  \/ InFlight < MaxCalls /\ CreateSessionCall
  \/ \E k \in Calls : CreateSessionReturn(k)
  \/ \E k \in Calls : CreateSessionFail(k)
  \/ \E id \in SessIds :
       (MapGet(id) # NoCtl \/ InFlight < MaxCalls) /\ GetSessionCall(id)
  \/ \E k \in Calls : GetSessionReturn(k)
  \/ \E k \in Calls, kind \in FetchErrors : GetSessionFail(k, kind)
  \/ \E id \in SessIds, outcome \in {"resolves", "rejects"} :
       InFlight < MaxCalls /\ EndSessionCall(id, outcome)
  \/ \E k \in Calls : EndSessionResume(k)
  \/ \E k \in Calls : EndSessionReturn(k)
  \/ \E k \in Calls : EndSessionFail(k)
  \/ \E R \in SUBSET Ctl : InFlight < MaxCalls /\ CleanupCall(R)
  \/ \E k \in Calls : CleanupResume(k)

\* The application connects and disconnects the controllers it was given.
NextSdk ==
  \/ FacadeNext
  \/ \E c \in Ctl : Connect(c, {})
  \/ \E c \in Ctl : Disconnect(c, "resolves")
  \/ \E r \in Rooms : ConnectResolve(r)

SpecSdk == InitSdk /\ [][NextSdk]_vars

\* --------------------------------------------------- the registry alone
\* The application uses the facade only and keeps the array it was given.
NextSnapshot ==
  \/ FacadeNext
  \/ GetActiveSessions
  \/ MutateSnapshot

SpecSnapshot == InitSdk /\ [][NextSnapshot]_vars

\* ------------------------------------------------- the registry under races
\* createSession and getSession calls that overlap, up to MaxRacing in flight,
\* by an application that connects the controllers it was given and never
\* ends a session.
NextRacing ==
  \/ CreateSessionCall
  \/ \E k \in Calls : CreateSessionReturn(k)
  \/ \E k \in Calls : CreateSessionFail(k)
  \/ \E id \in SessIds : GetSessionCall(id)
  \/ \E k \in Calls : GetSessionReturn(k)
  \/ \E k \in Calls, kind \in FetchErrors : GetSessionFail(k, kind)
  \/ \E c \in Ctl : Connect(c, {})
  \/ \E r \in Rooms : ConnectResolve(r)

SpecRacing == InitSdk /\ [][NextRacing]_vars

\* ---------------------------------------------------------------- APIClient
\* What a gateway call gets back: no response (fetch rejects), or a status
\* and a body.  A body by what handleErrorResponse makes of its text: a JSON
\* object with a message, a JSON object without one, JSON null, another JSON
\* value (number, string, boolean, array), text that is not JSON, no text.
Statuses == {200, 201, 204, 400, 401, 403, 404, 409, 429, 500, 502, 503}

Bodies == {"message", "noMessage", "null", "primitive", "text", "empty"}

Responses ==
  [got : {TRUE}, status : Statuses, body : Bodies]
  \cup [got : {FALSE}, status : {0}, body : {"empty"}]

Endpoints == {"createSession", "getSession", "endSession"}

\* response.ok
ResponseOk(status) == status \in 200..299

\* `try { errorData = JSON.parse(text) } catch { errorData = { message: text } }`
\* followed by `errorData.message || "Request failed with status .."`: the
\* message, or the TypeError of reading a member of null.
ErrorMessage(body) ==
  CASE body = "message" -> "server message"
    [] body = "text" -> "body text"
    [] body = "null" -> "TypeError"
    [] OTHER -> "Request failed with status"

\* new SoulCypherError(message, code, statusCode) and its subclasses.
SoulCypherError(name, message, code, statusCode) ==
  [name |-> name, message |-> message, code |-> code, statusCode |-> statusCode]

AuthenticationError(message) ==
  SoulCypherError("AuthenticationError", message, "AUTHENTICATION_ERROR", 401)

RateLimitError(message) ==
  SoulCypherError("RateLimitError", message, "RATE_LIMIT_ERROR", 429)

\* What handleErrorResponse throws.
HandleErrorResponse(status, body) ==
  LET message == ErrorMessage(body)
  IN IF message = "TypeError"
     THEN [name |-> "TypeError", message |-> "TypeError", code |-> "none",
           statusCode |-> 0]
     ELSE CASE status = 401 -> AuthenticationError(message)
            [] status = 429 -> RateLimitError(message)
            [] status = 400 ->
                 SoulCypherError("SoulCypherError", message, "VALIDATION_ERROR", 400)
            [] status = 404 ->
                 SoulCypherError("SoulCypherError", message, "NOT_FOUND", 404)
            [] status = 500 ->
                 SoulCypherError("SoulCypherError", message, "INTERNAL_ERROR", 500)
            [] OTHER ->
                 SoulCypherError("SoulCypherError", message, "API_ERROR", status)

\* The catch block of request: a SoulCypherError goes on as it is, anything
\* else becomes a NETWORK_ERROR (without status code).
RequestCaught(error) ==
  IF error.name \in {"SoulCypherError", "AuthenticationError", "RateLimitError"}
  THEN error
  ELSE SoulCypherError("SoulCypherError", "Request failed", "NETWORK_ERROR", 0)

\* response.json() of a successful response: the parsed body, or a rejection
\* with the parser's SyntaxError; the promise is returned without await, so
\* the catch block of request does not see the rejection.
ResponseJson(body) ==
  IF body \in {"text", "empty"}
  THEN [name |-> "SyntaxError", message |-> "SyntaxError", code |-> "none",
        statusCode |-> 0]
  ELSE [name |-> "none", message |-> body, code |-> "none", statusCode |-> 0]

\* request(endpoint, options): what the call ends with (name "none": it
\* resolved).
RequestOutcome(resp) ==
  IF ~resp.got
  THEN RequestCaught([name |-> "TypeError", message |-> "fetch failed",
                      code |-> "none", statusCode |-> 0])
  ELSE IF ResponseOk(resp.status) THEN ResponseJson(resp.body)
  ELSE RequestCaught(HandleErrorResponse(resp.status, resp.body))

\* One gateway call from its start to its end; it keeps no state.
Request(endpoint, resp) ==
  /\ Observe(Op("request", NoCtl, NoRoom, [endpoint |-> endpoint, resp |-> resp],
                RequestOutcome(resp)), <<>>)
  /\ UNCHANGED <<ctlSession, room, roomVars, ghostVars, sdkVars>>

NextRequest == \E endpoint \in Endpoints, resp \in Responses : Request(endpoint, resp)

SpecRequest == InitSdk /\ [][NextRequest]_vars

\* ================================================================ claims
NeverConnected(c) == \A r \in Rooms : roomOwner[r] # c

\* Exactly the handlers of `type` registered on c, each once, in order.
InvokedOncePerHandler(c, type) ==
  /\ Len(lastInvoked) = Len(eventHandlers[c][type])
  /\ \A i \in 1..Len(lastInvoked) :
       lastInvoked[i] =
         [ctl |-> c, type |-> type, handler |-> eventHandlers[c][type][i]]

\* C1: disconnect() called in any controller state resolves (never throws) and
\* emits session.ended once, which reaches every registered session.ended
\* handler exactly once; on a controller that never connected it makes no
\* call on the transport.
C1_DisconnectIdempotent ==
  lastOp.op = "disconnect" =>
    /\ lastOp.res = "resolved"
    /\ lastEmit = <<Emitted(lastOp.ctl, SESSION_EVENTS_ENDED)>>
    /\ InvokedOncePerHandler(lastOp.ctl, SESSION_EVENTS_ENDED)
    /\ room[lastOp.ctl] = NoRoom
    /\ (NeverConnected(lastOp.ctl) => lastOp.room = NoRoom)

\* A never-connected controller with a session.ended handler was disconnected
\* while the transport would have rejected.
C1_Witness ==
  /\ lastOp.op = "disconnect"
  /\ NeverConnected(lastOp.ctl)
  /\ lastOp.arg = "rejects"
  /\ Len(lastInvoked) = 1

\* A connection is open once the transport has established it and until the
\* transport reports it disconnected.
Open(r) == roomState[r] \in {"connected", "reconnecting"}

OpenRooms(c) == {r \in Rooms : roomOwner[r] = c /\ Open(r)}

\* C2: a controller never has two transport connections open at once.
C2_AtMostOneConnection == \A c \in Ctl : Cardinality(OpenRooms(c)) <= 1

\* C3: the teardown of a connection by disconnect() delivers session.ended
\* exactly once, the transport's own Disconnected notification included.
C3_TeardownExactlyOnce == \A r \in tornDown : endedFor[r] = 1

\* C4: after a failed transport connect the controller holds no Room (as a
\* controller that never connected) and getStatus() is disconnected.
C4_FailedConnectLeavesNothing ==
  lastOp.op = "connectRejected" =>
    /\ lastOp.res = "ConnectionError"
    /\ GetStatus(lastOp.ctl) = "disconnected"
    /\ room[lastOp.ctl] = NoRoom

Notifications ==
  {"TrackSubscribed", "DataReceived", "ConnectionQualityChanged", "Disconnected"}

\* C5: a Room torn down by disconnect() keeps none of the controller's
\* listeners, and none of its notifications produces a domain event.
C5_ListenersReleased ==
  /\ \A r \in tornDown : roomListeners[r] = {} /\ mediaBound[r] = <<>>
  /\ (lastOp.op \in Notifications /\ lastOp.room \in tornDown => lastEmit = <<>>)

\* C6: cleanup() disconnects every registered controller, also when the
\* transport rejects the disconnect of some of them, and the registry is
\* empty when cleanup() has finished, resolved or rejected.
C6_CleanupToleratesFailure ==
  /\ (lastOp.op = "cleanup" =>
        /\ \A c \in ValueSet : room[c] = NoRoom /\ c \in ended
        /\ Len(lastEmit) = Len(sessions)
        /\ \A i \in 1..Len(lastEmit) :
             lastEmit[i] = Emitted(sessions[i].ctl, SESSION_EVENTS_ENDED))
  /\ (lastOp.op = "cleanupDone" => sessions = <<>>)

\* cleanup() has finished over two or more registered controllers, the
\* transport having rejected the disconnect of one of them.
C6_Witness ==
  /\ lastOp.op = "cleanupDone"
  /\ lastOp.arg.n >= 2
  /\ lastOp.arg.rejects # {}
  /\ Cardinality(lastOp.arg.rejects) < lastOp.arg.n

\* C7: when connect() has succeeded getStatus() is connected, and when
\* disconnect() has been called getStatus() is disconnected.
C7_StatusFollowsLifecycle ==
  /\ (lastOp.op = "connectResolved" => GetStatus(lastOp.ctl) = "connected")
  /\ (lastOp.op = "disconnect" => GetStatus(lastOp.ctl) = "disconnected")

\* An endSession or cleanup that has disconnected c and not yet resumed.
TeardownInFlight(c) ==
  \E k \in Calls :
    \/ calls[k].op = "endSession" /\ calls[k].pc = "disconnect" /\ calls[k].ctl = c
    \/ calls[k].op = "cleanup"

\* C8: a controller that has been torn down is not in the registry (once the
\* facade operation that tore it down, if any, has resumed).
C8_NoEntryOutlivesTeardown ==
  \A c \in ended : c \in ValueSet => TeardownInFlight(c)

\* C9: endSession(id) on a registered controller disconnects it first; when
\* the gateway call is issued the registry holds no entry for id; the entry of
\* that controller is gone while the call is in flight and after it failed,
\* and the failure reaches the caller.
C9_EndSessionRemovesBeforeRemote ==
  /\ (lastOp.op = "endSession" /\ lastOp.res = "awaiting" =>
        /\ room[lastOp.ctl] = NoRoom
        /\ lastEmit = <<Emitted(lastOp.ctl, SESSION_EVENTS_ENDED)>>
        /\ \A k \in Calls :
             calls[k].op = "endSession" /\ calls[k].ctl = lastOp.ctl
               => calls[k].pc = "disconnect")
  /\ (lastOp.op = "endSessionIssued" => MapGet(lastOp.arg) = NoCtl)
  /\ \A k \in Calls :
       calls[k].op = "endSession" /\ calls[k].pc = "gateway"
         => calls[k].ctl \notin ValueSet
  /\ (lastOp.op = "endSessionDone" /\ lastOp.ctl # NoCtl =>
        lastOp.ctl \notin ValueSet)

\* The gateway call of an endSession that found a registered controller
\* failed.
C9_Witness ==
  /\ lastOp.op = "endSessionDone"
  /\ lastOp.res = "rejected"
  /\ lastOp.ctl # NoCtl
  /\ lastOp.ctl \in ended

\* C10: a data payload that is not JSON, is not an object, or carries a type
\* other than status / response / error makes the normalizer emit nothing and
\* invoke no handler; no exception leaves the listener and getStatus() is as
\* it was.
Malformed(p) ==
  \/ p.json # "object"
  \/ p.type \notin {MESSAGE_TYPES_STATUS, MESSAGE_TYPES_RESPONSE, MESSAGE_TYPES_ERROR}

C10_MalformedPayloadDropped ==
  lastOp.op = "DataReceived" /\ Malformed(lastOp.arg) =>
    /\ lastEmit = <<>>
    /\ lastInvoked = <<>>
    /\ lastOp.res = "ok"
    /\ GetStatus(lastOp.ctl) = lastOp.pre

\* The text "null" arrived on a connected session whose application listens
\* to avatar.response.
C10_Witness ==
  /\ lastOp.op = "DataReceived"
  /\ lastOp.arg.json = "null"
  /\ lastOp.pre = "connected"
  /\ eventHandlers[lastOp.ctl][AVATAR_EVENTS_RESPONSE] # <<>>

\* The elements of a list.
Range(list) == {list[i] : i \in 1..Len(list)}

\* `now` is `before` with its i-th element taken out, the others in order.
Without(before, i, now) ==
  /\ Len(now) = Len(before) - 1
  /\ \A j \in 1..Len(now) : now[j] = IF j < i THEN before[j] ELSE before[j + 1]

\* C11: on() puts the handler at the end of the list of its event type; every
\* emission invokes exactly the handlers registered for its type, in
\* registration order; off() takes one registration of the handler out and
\* keeps the others in order, and changes nothing when the handler is not
\* registered.
C11_HandlersInRegistrationOrder ==
  /\ (lastOp.op = "on" =>
        eventHandlers[lastOp.ctl][lastOp.arg[1]] = Append(lastOp.pre, lastOp.arg[2]))
  /\ (lastOp.op = "off" =>
        LET now == eventHandlers[lastOp.ctl][lastOp.arg[1]]
        IN IF lastOp.arg[2] \in Range(lastOp.pre)
           THEN \E i \in 1..Len(lastOp.pre) :
                  lastOp.pre[i] = lastOp.arg[2] /\ Without(lastOp.pre, i, now)
           ELSE now = lastOp.pre)
  /\ \A i \in 1..Len(lastEmit) :
       InvokedOncePerHandler(lastEmit[i].ctl, lastEmit[i].type)

\* Of two handlers of one event type the first was removed and the other
\* stays.
C11_Witness ==
  /\ lastOp.op = "off"
  /\ Len(lastOp.pre) = 2
  /\ lastOp.pre[1] = lastOp.arg[2]
  /\ lastOp.pre[2] # lastOp.arg[2]
  /\ eventHandlers[lastOp.ctl][lastOp.arg[1]] = <<lastOp.pre[2]>>

\* The outcome of a segment when no handler interferes with it.
OutcomeWithoutHandlers(op) ==
  CASE op = "disconnect" -> "resolved"
    [] op = "connectResolved" -> "resolved"
    [] OTHER -> "ok"

\* C12: when a handler throws during an emission, the handlers registered
\* after it for the same event are invoked all the same, and the segment that
\* emitted (connect(), disconnect() or a transport callback) ends as it does
\* without the exception.
C12_HandlerExceptionContained ==
  \A e \in 1..Len(lastEmit) :
    LET list == eventHandlers[lastEmit[e].ctl][lastEmit[e].type]
    IN (\E i \in 1..Len(list) : Throws(list[i])) =>
         /\ \A i \in 1..Len(list) :
              Throws(list[i]) =>
                \A j \in (i + 1)..Len(list) :
                  /\ j <= Len(lastInvoked)
                  /\ lastInvoked[j].handler = list[j]
                  /\ lastInvoked[j].type = lastEmit[e].type
         /\ lastOp.res = OutcomeWithoutHandlers(lastOp.op)

\* disconnect() emitted session.ended to a handler that throws and then to
\* one that returns.
C12_Witness ==
  /\ lastOp.op = "disconnect"
  /\ Len(lastInvoked) = 2
  /\ Throws(lastInvoked[1].handler)
  /\ ~Throws(lastInvoked[2].handler)

\* The domain events a transport notification stands for.
DomainEventsOf(op) ==
  CASE op.op = "DataReceived" /\ op.arg.json = "object"
         /\ op.arg.type = MESSAGE_TYPES_STATUS -> <<AVATAR_EVENTS_STATUS>>
    [] op.op = "DataReceived" /\ op.arg.json = "object"
         /\ op.arg.type = MESSAGE_TYPES_RESPONSE -> <<AVATAR_EVENTS_RESPONSE>>
    [] op.op = "DataReceived" /\ op.arg.json = "object"
         /\ op.arg.type = MESSAGE_TYPES_ERROR -> <<AVATAR_EVENTS_ERROR>>
    [] op.op = "Disconnected" -> <<SESSION_EVENTS_ENDED>>
    [] op.op = "ConnectionQualityChanged" -> <<CONNECTION_EVENTS_QUALITY>>
    [] op.op = "TrackSubscribed" /\ op.arg = "video" -> <<AVATAR_EVENTS_VIDEO>>
    [] op.op = "TrackSubscribed" /\ op.arg = "audio" -> <<AVATAR_EVENTS_AUDIO>>
    [] OTHER -> <<>>

\* C13: the domain event of a transport notification is emitted, and its
\* handlers are invoked, in the segment that receives the notification (so
\* before the next notification is received), and a segment delivers only the
\* events of its own notification: nothing is held back, batched or moved.
C13_DeliveredInTransportOrder ==
  /\ (lastOp.op \in Notifications =>
        /\ Len(lastEmit) = Len(DomainEventsOf(lastOp))
        /\ \A i \in 1..Len(lastEmit) :
             /\ lastEmit[i] = Emitted(lastOp.ctl, DomainEventsOf(lastOp)[i])
             /\ roomOwner[lastOp.room] = lastEmit[i].ctl
        /\ Len(lastInvoked) =
             SumOver([i \in 1..Len(lastEmit) |->
                        Len(eventHandlers[lastEmit[i].ctl][lastEmit[i].type])],
                     1..Len(lastEmit))
        /\ \A i \in 1..Len(lastInvoked) :
             lastInvoked[i].type \in Range(DomainEventsOf(lastOp)))
  /\ (lastOp.op \notin Notifications
                      \cup {"disconnect", "connectResolved", "endSession", "cleanup"} =>
        lastEmit = <<>> /\ lastInvoked = <<>>)

\* An avatar response arrived and two handlers were invoked for it.
C13_Witness ==
  /\ lastOp.op = "DataReceived"
  /\ lastEmit = <<Emitted(lastOp.ctl, AVATAR_EVENTS_RESPONSE)>>
  /\ Len(lastInvoked) = 2

\* C14: connect() on a session without token or without URL throws a
\* ConnectionError, constructs no Room, emits nothing and leaves getStatus()
\* at disconnected.
C14_ConnectNeedsDetails ==
  lastOp.op = "connect"
    /\ (~ctlSession[lastOp.ctl].token \/ ~ctlSession[lastOp.ctl].url) =>
      /\ lastOp.res = "ConnectionError"
      /\ lastOp.room = NoRoom
      /\ NeverConnected(lastOp.ctl)
      /\ lastEmit = <<>>
      /\ GetStatus(lastOp.ctl) = "disconnected"

\* connect() was called on a session that has a token and no URL.
C14_Witness ==
  /\ lastOp.op = "connect"
  /\ ctlSession[lastOp.ctl].token
  /\ ~ctlSession[lastOp.ctl].url

\* C15: sendMessage() on a controller that never connected throws the
\* not-connected error and publishes nothing.
C15_SendBeforeConnect ==
  lastOp.op = "sendMessage" /\ NeverConnected(lastOp.ctl) =>
    /\ lastOp.res = "NotConnected"
    /\ ~lastOp.arg.published

\* sendMessage() was called on a controller that has its connection details
\* and has not connected.
C15_Witness ==
  /\ lastOp.op = "sendMessage"
  /\ NeverConnected(lastOp.ctl)
  /\ ~MissingDetails(lastOp.ctl)

\* C16: sendMessage() on a controller whose transport connection is not
\* connected throws the not-connected error and does not publish.
C16_SendNeedsConnection ==
  lastOp.op = "sendMessage"
    /\ (lastOp.room = NoRoom \/ roomState[lastOp.room] # "connected") =>
      /\ lastOp.res = "NotConnected"
      /\ ~lastOp.arg.published


\* The controller a registry holds for an id (NoCtl: none).
Lookup(registry, id) ==
  IF \E i \in 1..Len(registry) : registry[i].id = id
  THEN registry[CHOOSE i \in 1..Len(registry) : registry[i].id = id].ctl
  ELSE NoCtl

EntriesOf(registry, id) == SelectSeq(registry, LAMBDA e : e.id = id)

OtherEntries(registry, id) == SelectSeq(registry, LAMBDA e : e.id # id)

\* C17: when createSession() returns, the registry holds the new controller
\* under the id of the session the gateway returned, no Room has been made
\* for the controller and its getStatus() is disconnected; when the gateway
\* call failed the registry is as it was.
C17_CreateSessionRegistersOnly ==
  /\ (lastOp.op = "createSession" /\ lastOp.res = "resolved" =>
        /\ lastOp.ctl # NoCtl
        /\ ctlSession[lastOp.ctl].id = lastOp.arg
        /\ Lookup(sessions, lastOp.arg) = lastOp.ctl
        /\ OtherEntries(sessions, lastOp.arg) = OtherEntries(lastOp.pre, lastOp.arg)
        /\ room[lastOp.ctl] = NoRoom
        /\ NeverConnected(lastOp.ctl)
        /\ GetStatus(lastOp.ctl) = "disconnected")
  /\ (lastOp.op = "createSession" /\ lastOp.res = "rejected" =>
        sessions = lastOp.pre)

\* createSession() returned a second controller.
C17_Witness ==
  /\ lastOp.op = "createSession"
  /\ lastOp.res = "resolved"
  /\ Len(lastOp.pre) = 1
  /\ Len(sessions) = 2

\* C18: getSession(id) on a registered id returns the registered controller
\* and starts no gateway call (registry and calls in flight are as they were);
\* a fetch is started only when the id is not registered; after a successful
\* fetch the registry holds exactly one entry for the id, with the returned
\* controller, the other entries are as they were, and an id that was absent
\* makes the registry one entry longer.
C18_GetSessionHitOrFetch ==
  /\ (lastOp.op = "getSession" /\ lastOp.res = "hit" =>
        /\ lastOp.ctl # NoCtl
        /\ Lookup(lastOp.pre.sessions, lastOp.arg) = lastOp.ctl
        /\ calls = lastOp.pre.calls
        /\ sessions = lastOp.pre.sessions)
  /\ (lastOp.op = "getSessionCall" =>
        Lookup(lastOp.pre.sessions, lastOp.arg) = NoCtl)
  /\ (lastOp.op = "getSession" /\ lastOp.res = "fetched" =>
        /\ EntriesOf(sessions, lastOp.arg) =
             <<[id |-> lastOp.arg, ctl |-> lastOp.ctl]>>
        /\ OtherEntries(sessions, lastOp.arg) =
             OtherEntries(lastOp.pre.sessions, lastOp.arg)
        /\ (Lookup(lastOp.pre.sessions, lastOp.arg) = NoCtl =>
              Len(sessions) = Len(lastOp.pre.sessions) + 1))

\* A session was fetched into a registry that held another one.
C18_Witness ==
  /\ lastOp.op = "getSession"
  /\ lastOp.res = "fetched"
  /\ Len(lastOp.pre.sessions) = 1
  /\ Len(sessions) = 2

\* C19: when the fetch of getSession() fails, with whatever error,
\* getSession() resolves to null and the registry is as it was.
C19_FetchFailureIsNull ==
  lastOp.op = "getSessionFailed" =>
    /\ lastOp.res = "null"
    /\ sessions = lastOp.pre.sessions

\* The fetch failed for lack of a response while the registry held a session.
C19_Witness ==
  /\ lastOp.op = "getSessionFailed"
  /\ lastOp.arg[2] = "NETWORK_ERROR"
  /\ lastOp.pre.sessions # <<>>

\* C20: getActiveSessions() returns the registered controllers in an array of
\* its own: what the caller reads in it stays what the array held, whatever
\* happens to the registry, and removing an element from it leaves the
\* registry as it was.
C20_SnapshotIsCopy ==
  /\ (lastOp.op = "getActiveSessions" =>
        returned.taken /\ returned.elems = Values)
  /\ (returned.taken => Snapshot = returned.elems)
  /\ (lastOp.op = "mutateSnapshot" => sessions = lastOp.pre)

\* endSession() removed the one registered controller after the caller took
\* the array: the array still holds it.
C20_Witness ==
  /\ lastOp.op = "endSessionIssued"
  /\ returned.taken
  /\ returned.elems = <<lastOp.ctl>>
  /\ sessions = <<>>


\* The error kind the gateway's status stands for.
KindOfStatus(status) ==
  CASE status = 401 -> "AUTHENTICATION_ERROR"
    [] status = 429 -> "RATE_LIMIT_ERROR"
    [] status = 400 -> "VALIDATION_ERROR"
    [] status = 404 -> "NOT_FOUND"
    [] status = 500 -> "INTERNAL_ERROR"
    [] OTHER -> "API_ERROR"

\* C21: a gateway call answered with a non-2xx status fails with the error
\* kind of that status (429 rate limit, 401 authentication, 400 validation,
\* 404 not found, 500 internal, any other the generic kind) and with the
\* status code; on 429 and 401 it carries the message the server sent; a call
\* without response fails with the network kind.
C21_StatusMapsToErrorKind ==
  lastOp.op = "request" =>
    LET resp == lastOp.arg.resp
        error == lastOp.res
    IN /\ (~resp.got => error.code = "NETWORK_ERROR")
       /\ (resp.got /\ ~ResponseOk(resp.status) =>
             /\ error.code = KindOfStatus(resp.status)
             /\ error.statusCode = resp.status
             /\ (resp.status \in {401, 429} /\ resp.body = "message" =>
                   error.message = "server message")
             /\ (resp.status \in {401, 429} /\ resp.body = "text" =>
                   error.message = "body text"))


\* C22: getStatus() changes nothing and returns disconnected, connecting,
\* connected or error: disconnected without a Room, connected exactly when
\* the Room it holds reports connected, and error for every state of the Room
\* other than connected, connecting and disconnected.
C22_GetStatusPureAndFailSafe ==
  lastOp.op = "getStatus" =>
    /\ lastOp.pre = <<ctlVars, roomVars>>
    /\ lastOp.res \in {"disconnected", "connecting", "connected", "error"}
    /\ (lastOp.room = NoRoom => lastOp.res = "disconnected")
    /\ (lastOp.res = "connected" <=>
          lastOp.room # NoRoom /\ roomState[lastOp.room] = "connected")
    /\ (lastOp.room # NoRoom
          /\ roomState[lastOp.room] \notin {"connected", "connecting", "disconnected"}
          => lastOp.res = "error")

\* getStatus() was called while the transport was reconnecting.
C22_Witness ==
  /\ lastOp.op = "getStatus"
  /\ lastOp.room # NoRoom
  /\ roomState[lastOp.room] = "reconnecting"
  /\ lastOp.res = "error"


\* C23: a connect() that succeeds emits session.started once, at a moment
\* when the controller holds the Room of that connect(), connected, and
\* disconnect() has not torn that Room down (session.started does not come
\* after the session.ended of the same attempt); a connect() that fails emits
\* nothing.
C23_StartedOnlyWhileConnected ==
  /\ (lastOp.op = "connectResolved" =>
        /\ lastEmit = <<Emitted(lastOp.ctl, SESSION_EVENTS_STARTED)>>
        /\ room[lastOp.ctl] = lastOp.room
        /\ GetStatus(lastOp.ctl) = "connected"
        /\ lastOp.room \notin tornDown)
  /\ (lastOp.op \in {"connectRejected", "connect"} => lastEmit = <<>>)


\* C24: every track-subscribed or data notification delivered since
\* connect() began, also before room.connect() resolved, yields its domain
\* event, and a subscribed track whose kind has a sink passed to that
\* connect() is attached to the sink.
C24_NoEarlyNotificationLost ==
  /\ (lastOp.op = "TrackSubscribed" /\ lastOp.arg \in {"video", "audio"} =>
        Len(lastEmit) = 1)
  /\ (lastOp.op = "DataReceived" /\ lastOp.arg.json = "object"
        /\ lastOp.arg.type \in {MESSAGE_TYPES_STATUS, MESSAGE_TYPES_RESPONSE,
                                MESSAGE_TYPES_ERROR} =>
        Len(lastEmit) = 1)
  /\ (lastOp.op = "TrackSubscribed" /\ lastOp.arg \in connArgs[lastOp.room] =>
        TrackAttachments(lastOp.room, lastOp.arg) >= 1)


\* The one domain event type a transport notification may turn into, if any.
MappedTypes(op) ==
  IF op.op = "TrackSubscribed"
  THEN (IF op.arg = "video" THEN {AVATAR_EVENTS_VIDEO}
        ELSE IF op.arg = "audio" THEN {AVATAR_EVENTS_AUDIO} ELSE {})
  ELSE IF op.op = "DataReceived"
  THEN (IF op.arg.type = MESSAGE_TYPES_STATUS THEN {AVATAR_EVENTS_STATUS}
        ELSE IF op.arg.type = MESSAGE_TYPES_RESPONSE THEN {AVATAR_EVENTS_RESPONSE}
        ELSE IF op.arg.type = MESSAGE_TYPES_ERROR THEN {AVATAR_EVENTS_ERROR}
        ELSE {})
  ELSE IF op.op = "ConnectionQualityChanged" THEN {CONNECTION_EVENTS_QUALITY}
  ELSE IF op.op = "Disconnected" THEN {SESSION_EVENTS_ENDED}
  ELSE {}

C26_OneControllerPerSession ==
  /\ \A id \in SessIds : Len(EntriesOf(sessions, id)) <= 1
  /\ \A c \in Ctl :
       Constructed(c) => Lookup(sessions, ctlSession[c].id) = c


\* How many times a handler occurs in a list.
Occurrences(list, handler) ==
  Cardinality({i \in 1..Len(list) : list[i] = handler})

\* How many times a handler was invoked for an event of a controller.
InvocationsOf(c, type, handler) ==
  Cardinality({i \in 1..Len(lastInvoked) :
                 lastInvoked[i] = [ctl |-> c, type |-> type, handler |-> handler]})

\* C27: when handlers call off() while an event is dispatched, every handler
\* that is still registered for the event when the dispatch is over was
\* invoked for it, once per registration.
C27_OffDuringDispatchSkipsNone ==
  \A i \in 1..Len(lastEmit) :
    LET c == lastEmit[i].ctl
        type == lastEmit[i].type
    IN \A h \in Range(eventHandlers[c][type]) :
         InvocationsOf(c, type, h) = Occurrences(eventHandlers[c][type], h)


====
